---- MODULE Spec2Model ----
(***************************************************************************)
(* Model of src/caffe/swutil/slave/sw_slave_sscal.c: the slave-core scale  *)
(* kernel y[i] = alpha * x[i] of SWCaffe.  Every slave core runs          *)
(* sw_slave_sscal_f (or sw_slave_sscal_d) on its own partition of the      *)
(* vector, staging chunks through two LDM buffers with asynchronous DMA.   *)
(*                                                                         *)
(* Scaling.  The worker population and the chunk size are scaled down for  *)
(* the interleaving model (NumWorkers cores, BUFFSIZE = BuffVecs*SIMDSIZE  *)
(* elements); the partition arithmetic is also checked on its own with the *)
(* real population SPNUM = 64 (specification SpecPart).  Element values    *)
(* are integers and the floating-point multiply is the integer product.    *)
(***************************************************************************)
EXTENDS Integers, Sequences, FiniteSets, TLC

\* ---------------------------------------------------------------- bounds
NumWorkers   == 2      \* slave cores of the interleaving model
BuffVecs     == 2      \* SIMD vectors per staging buffer
MaxCount     == 33     \* largest para->count of the interleaving model
MaxRuns      == 2      \* invocations of the kernel in one behaviour
MaxPartCount == 130    \* largest count of the partition-only model

\* ------------------------------------------------------- program constants
SIMDSIZE    == 4
SPNUM       == 64
SizeofFloat == 4
BUFFSIZE    == BuffVecs * SIMDSIZE
NULL        == 0

Workers == 0 .. (NumWorkers - 1)
Alphas  == {2, 3}
Uninit  == -1          \* content of memory nobody has written
OldData == 1000
BufBytes == BUFFSIZE * SizeofFloat
LDMSize == 4 * BufBytes
MemSize == 2 * (MaxCount + 1)
Populations == {NumWorkers, 4, SPNUM}

\* ------------------------------------------------------- integer arithmetic
\* C integer division and remainder (truncation toward zero)
CDiv(a, b) == IF a >= 0 THEN a \div b ELSE -((-a) \div b)
CMod(a, b) == a - b * CDiv(a, b)

\* a C comparison used as an int
BoolInt(b) == IF b THEN 1 ELSE 0

\* the remainder goes to one core too many
MutPartCount(id, count, P) ==
  CDiv(count, P) + BoolInt(id <= CMod(count, P))

\* int local_count = count/SPNUM + (id<(count%SPNUM));
PartCount(id, count, P) ==
  CDiv(count, P) + BoolInt(id < CMod(count, P))

\* every core is taken to hold a remainder element
MutPartStart(id, count, P) ==
  id * CDiv(count, P) + id

\* int start = id*(count/SPNUM) + (id<(count%SPNUM)?id:(count%SPNUM));
PartStart(id, count, P) ==
  id * CDiv(count, P) + (IF id < CMod(count, P) THEN id ELSE CMod(count, P))

\* lane-wise / scalar multiply by alpha
Mul(a, v) == a * v

VARIABLES
  \* host side
  para,               \* the sscalPara descriptor: src, dst, alpha, count
  kernel,             \* "f": sw_slave_sscal_f is spawned, "d": sw_slave_sscal_d
  run,                \* number of the current invocation
  mem,                \* global memory, by element address
  x0,                 \* source contents at launch of the current invocation
  prev,               \* the previous invocation: its input and what it left
  \* slave side, one entry per core
  pc, local_count, start, off, i,
  local_src, local_dst,          \* LDM block of each staging buffer, or NULL
  ldm,                           \* LDM contents: block -> index -> value
  ldm_avail,                     \* bytes left in the LDM pool
  replyget, replyput,
  dma_get_sscal_src, dma_put_sscal_dst,   \* __thread_local_fix descriptors
  inflight,                      \* transfers issued and not yet completed
  \* history
  xfers,              \* transfers issued by the core in this invocation
  nwait,              \* dma_wait calls that returned
  acq, rel,           \* ldm_malloc results / ldm_free calls of this invocation
  grd, gwr,           \* global addresses the core's transfers read / wrote
  \* partition-only model
  p_pop, p_count, p_id, p_parts,
  \* full-width model of the int arithmetic of one core
  n_count, n_id, n_pc, n_local_count, n_start, n_off,
  n_eval              \* the int expressions evaluated by the last step

hostVars == <<para, kernel, run, mem, x0, prev>>
coreVars == <<pc, local_count, start, off, i, local_src, local_dst, ldm,
              ldm_avail, replyget, replyput, dma_get_sscal_src,
              dma_put_sscal_dst, inflight>>
histVars == <<xfers, nwait, acq, rel, grd, gwr>>
wideVars == <<n_count, n_id, n_pc, n_local_count, n_start, n_off, n_eval>>
partVars == <<p_pop, p_count, p_id, p_parts, wideVars>>
vars == <<hostVars, coreVars, histVars, partVars>>

\* ------------------------------------------------------------------ memory
\* the source vector is 1, 2, 3, ...; a separate destination holds old data
Mem0 == [a \in 0 .. (MemSize - 1) |-> IF a <= MaxCount THEN a + 1 ELSE OldData + a]

MemRd(a) == IF a \in DOMAIN mem THEN mem[a] ELSE Uninit

FreshBuf == [k \in 0 .. (BUFFSIZE - 1) |-> Uninit]
FreshLdm == [b \in 0 .. 2 |-> FreshBuf]

LdmRd(w, b, k) == IF k \in 0 .. (BUFFSIZE - 1) THEN ldm[w][b][k] ELSE Uninit

SrcOf(p) == [k \in 0 .. MaxCount |-> mem[p.src + k]]
DstNow == [k \in 0 .. MaxCount |-> mem[para.dst + k]]

\* the source pointer taken from the destination vector
Mut_src_ptr(w) == para.dst + start[w]

src_ptr(w) == para.src + start[w]

\* the destination pointer without the core's start offset
Mut_dst_ptr(w) == para.dst

dst_ptr(w) == para.dst + start[w]

\* ldm_malloc: a block of the pool, or NULL when the pool cannot satisfy it
ldm_malloc(avail, size, blk) ==
  IF size <= avail THEN [ptr |-> blk, avail |-> avail - size]
                   ELSE [ptr |-> NULL, avail |-> avail]

NoDesc == [op |-> "none", mode |-> "none", reply |-> "none", size |-> 0]

\* dma(desc, mem_addr, ldm_addr): the transfer the descriptor describes
Transfer(desc, g, l) ==
  [op |-> desc.op, reply |-> desc.reply, size |-> desc.size, g |-> g, l |-> l]


\* ---------------------------------------------------------------- launch
Descriptors ==
  [src : {0}, dst : {0, MaxCount + 1}, alpha : Alphas, count : 0 .. MaxCount]

\* per-core state when the host spawns the kernel on all cores
Spawned ==
  /\ pc = [w \in Workers |-> "start"]
  /\ local_count = [w \in Workers |-> 0]
  /\ start = [w \in Workers |-> 0]
  /\ off = [w \in Workers |-> 0]
  /\ i = [w \in Workers |-> 0]
  /\ local_src = [w \in Workers |-> NULL]
  /\ local_dst = [w \in Workers |-> NULL]
  /\ ldm = [w \in Workers |-> FreshLdm]
  /\ replyget = [w \in Workers |-> 0]
  /\ replyput = [w \in Workers |-> 0]
  /\ inflight = [w \in Workers |-> {}]
  /\ xfers = [w \in Workers |-> <<>>]
  /\ nwait = [w \in Workers |-> 0]
  /\ acq = [w \in Workers |-> <<>>]
  /\ rel = [w \in Workers |-> <<>>]
  /\ grd = [w \in Workers |-> {}]
  /\ gwr = [w \in Workers |-> {}]

PartIdle ==
  /\ p_pop = SPNUM
  /\ p_count = 0
  /\ p_id = 0
  /\ p_parts = <<>>

\* the full-width model is not running
WideIdle ==
  /\ n_count = 0
  /\ n_id = 0
  /\ n_pc = "idle"
  /\ n_local_count = 0
  /\ n_start = 0
  /\ n_off = 0
  /\ n_eval = <<>>

\* everything but the descriptor and the entry point
Launched(pools) ==
  /\ run = 1
  /\ mem = Mem0
  /\ x0 = [k \in 0 .. MaxCount |-> Mem0[k]]
  /\ prev = [kind |-> "none", count |-> 0, x |-> [k \in 0 .. MaxCount |-> 0],
             dst |-> [k \in 0 .. MaxCount |-> 0]]
  /\ Spawned
  /\ \E a \in pools : ldm_avail = [w \in Workers |-> a]
  /\ dma_get_sscal_src = [w \in Workers |-> NoDesc]
  /\ dma_put_sscal_dst = [w \in Workers |-> NoDesc]

\* the first launch; pool is the LDM left to the kernel on every core
InitWith(pools) ==
  /\ para \in Descriptors
  /\ kernel \in {"f", "d"}
  /\ Launched(pools)
  /\ PartIdle
  /\ WideIdle

Init == InitWith({LDMSize})

\* ------------------------------------------------------ sw_slave_sscal_d
\* the body of sw_slave_sscal_d is inside a comment: the function returns
sw_slave_sscal_d(w) ==
  /\ kernel = "d"
  /\ pc[w] = "start"
  /\ pc' = [pc EXCEPT ![w] = "done"]
  /\ UNCHANGED <<hostVars, local_count, start, off, i, local_src, local_dst,
                 ldm, ldm_avail, replyget, replyput, dma_get_sscal_src,
                 dma_put_sscal_dst, inflight, histVars, partVars>>

\* ------------------------------------------------------ sw_slave_sscal_f
\* the size of a descriptor that was set before is left as it is
MutDmaSettingsSize(desc, op, reply) ==
  [desc EXCEPT !.op = op, !.mode = "PE_MODE", !.reply = reply,
               !.size = IF @ = 0 THEN BufBytes ELSE @]

\* both descriptors are bound to replyget
MutDmaSettings(desc, op, reply) ==
  [desc EXCEPT !.op = op, !.mode = "PE_MODE", !.reply = "replyget", !.size = BufBytes]

\* dma_set_op, dma_set_mode, dma_set_reply, dma_set_size of lines 113-122
DmaSettings(desc, op, reply) ==
  [desc EXCEPT !.op = op, !.mode = "PE_MODE", !.reply = reply, !.size = BufBytes]

\* lines 97-124 (up to the initialisation of the for loop)
Enter(w) ==
  /\ kernel = "f"
  /\ pc[w] = "start"
  /\ LET m1 == ldm_malloc(ldm_avail[w], BufBytes, 1)
         m2 == ldm_malloc(m1.avail, BufBytes, 2)
     IN /\ local_src' = [local_src EXCEPT ![w] = m1.ptr]
        /\ local_dst' = [local_dst EXCEPT ![w] = m2.ptr]
        /\ ldm_avail' = [ldm_avail EXCEPT ![w] = m2.avail]
        /\ acq' = [acq EXCEPT ![w] = <<[ptr |-> m1.ptr, size |-> BufBytes],
                                       [ptr |-> m2.ptr, size |-> BufBytes]>>]
  /\ local_count' = [local_count EXCEPT ![w] = PartCount(w, para.count, NumWorkers)]
  /\ start' = [start EXCEPT ![w] = PartStart(w, para.count, NumWorkers)]
  /\ replyget' = [replyget EXCEPT ![w] = 0]
  /\ replyput' = [replyput EXCEPT ![w] = 0]
  /\ dma_get_sscal_src' = [dma_get_sscal_src EXCEPT ![w] =
        DmaSettings(@, "DMA_GET", "replyget")]
  /\ dma_put_sscal_dst' = [dma_put_sscal_dst EXCEPT ![w] =
        DmaSettings(@, "DMA_PUT", "replyput")]
  /\ off' = [off EXCEPT ![w] = 0]
  /\ pc' = [pc EXCEPT ![w] = "for"]
  /\ UNCHANGED <<hostVars, i, ldm, inflight, xfers, nwait, rel, grd, gwr, partVars>>

\* the for loop stops one chunk early when the partition is whole chunks
MutForTest(w) == off[w] + BUFFSIZE < local_count[w]

\* the test of the for loop at line 124
ForTest(w) == off[w] + BUFFSIZE - 1 < local_count[w]

\* the tail is entered with nothing left
MutTailTest(w) == off[w] <= local_count[w]

\* the test of the if at line 141
TailTest(w) == off[w] < local_count[w]

\* issue of a transfer: the engine gets the descriptor as it is now
Issue(w, desc, g, l) ==
  /\ inflight' = [inflight EXCEPT ![w] = @ \cup {Transfer(desc, g, l)}]
  /\ xfers' = [xfers EXCEPT ![w] =
        Append(@, [op |-> desc.op, size |-> desc.size, g |-> g, l |-> l,
                   off |-> off[w], pending |-> Cardinality(inflight[w]),
                   from |-> pc[w]])]

\* line 124 (test true) and line 127
ForGet(w) ==
  /\ pc[w] = "for"
  /\ ForTest(w)
  /\ Issue(w, dma_get_sscal_src[w], src_ptr(w) + off[w], local_src[w])
  /\ pc' = [pc EXCEPT ![w] = "wait_get"]
  /\ UNCHANGED <<hostVars, local_count, start, off, i, local_src, local_dst, ldm,
                 ldm_avail, replyget, replyput, dma_get_sscal_src,
                 dma_put_sscal_dst, nwait, acq, rel, grd, gwr, partVars>>

\* the wait returns at once
Mut_dma_wait(reply, n) == TRUE

\* dma_wait(&reply, n): blocks until the reply word holds n
dma_wait(reply, n) == reply = n

\* line 128: dma_wait(&replyget, 1); replyget = 0;  and i = 0 of line 130
WaitGet(w) ==
  /\ pc[w] = "wait_get"
  /\ dma_wait(replyget[w], 1)
  /\ replyget' = [replyget EXCEPT ![w] = 0]
  /\ nwait' = [nwait EXCEPT ![w] = @ + 1]
  /\ i' = [i EXCEPT ![w] = 0]
  /\ pc' = [pc EXCEPT ![w] = "simd"]
  /\ UNCHANGED <<hostVars, local_count, start, off, local_src, local_dst, ldm,
                 ldm_avail, replyput, dma_get_sscal_src, dma_put_sscal_dst,
                 inflight, xfers, acq, rel, grd, gwr, partVars>>

\* the vector is stored without the multiply
MutSimdStep(w, i0) ==
  [ldm[w] EXCEPT ![local_dst[w]] =
     [k \in 0 .. (BUFFSIZE - 1) |->
        IF k >= i0 /\ k < i0 + SIMDSIZE
          THEN LdmRd(w, local_src[w], k)
          ELSE @[k]]]

\* simd_load; vsrc = vsrc * valpha; simd_store  at index i0 of the buffers
SimdStep(w, i0) ==
  [ldm[w] EXCEPT ![local_dst[w]] =
     [k \in 0 .. (BUFFSIZE - 1) |->
        IF k >= i0 /\ k < i0 + SIMDSIZE
          THEN Mul(para.alpha, LdmRd(w, local_src[w], k))
          ELSE @[k]]]

\* lines 130-134, one iteration
Simd(w) ==
  /\ pc[w] = "simd"
  /\ i[w] < BUFFSIZE
  /\ ldm' = [ldm EXCEPT ![w] = SimdStep(w, i[w])]
  /\ i' = [i EXCEPT ![w] = @ + SIMDSIZE]
  /\ UNCHANGED <<hostVars, pc, local_count, start, off, local_src, local_dst,
                 ldm_avail, replyget, replyput, dma_get_sscal_src,
                 dma_put_sscal_dst, inflight, histVars, partVars>>

\* line 130 (test false) and line 137
Put(w) ==
  /\ pc[w] = "simd"
  /\ ~(i[w] < BUFFSIZE)
  /\ Issue(w, dma_put_sscal_dst[w], dst_ptr(w) + off[w], local_dst[w])
  /\ pc' = [pc EXCEPT ![w] = "wait_put"]
  /\ UNCHANGED <<hostVars, local_count, start, off, i, local_src, local_dst, ldm,
                 ldm_avail, replyget, replyput, dma_get_sscal_src,
                 dma_put_sscal_dst, nwait, acq, rel, grd, gwr, partVars>>

\* the wait counts two replies where one transfer was issued
MutWaitPut(w) ==
  /\ pc[w] = "wait_put"
  /\ dma_wait(replyput[w], 2)
  /\ replyput' = [replyput EXCEPT ![w] = 0]
  /\ nwait' = [nwait EXCEPT ![w] = @ + 1]
  /\ off' = [off EXCEPT ![w] = @ + BUFFSIZE]
  /\ pc' = [pc EXCEPT ![w] = "for"]
  /\ UNCHANGED <<hostVars, local_count, start, i, local_src, local_dst, ldm,
                 ldm_avail, replyget, dma_get_sscal_src, dma_put_sscal_dst,
                 inflight, xfers, acq, rel, grd, gwr, partVars>>

\* line 138: dma_wait(&replyput, 1); replyput = 0;  and off += BUFFSIZE
WaitPut(w) ==
  /\ pc[w] = "wait_put"
  /\ dma_wait(replyput[w], 1)
  /\ replyput' = [replyput EXCEPT ![w] = 0]
  /\ nwait' = [nwait EXCEPT ![w] = @ + 1]
  /\ off' = [off EXCEPT ![w] = @ + BUFFSIZE]
  /\ pc' = [pc EXCEPT ![w] = "for"]
  /\ UNCHANGED <<hostVars, local_count, start, i, local_src, local_dst, ldm,
                 ldm_avail, replyget, dma_get_sscal_src, dma_put_sscal_dst,
                 inflight, xfers, acq, rel, grd, gwr, partVars>>


\* the tail size counted from the start of the partition
MutTailBytes(w) == local_count[w] * SizeofFloat

\* (local_count-off)*sizeof(float)
TailBytes(w) == (local_count[w] - off[w]) * SizeofFloat

\* line 124 (test false), line 141 (test true) and lines 142-143
TailGet(w) ==
  /\ pc[w] = "for"
  /\ ~ForTest(w)
  /\ TailTest(w)
  /\ LET d == [dma_get_sscal_src[w] EXCEPT
                 !.size = TailBytes(w)]
     IN /\ dma_get_sscal_src' = [dma_get_sscal_src EXCEPT ![w] = d]
        /\ Issue(w, d, src_ptr(w) + off[w], local_src[w])
  /\ pc' = [pc EXCEPT ![w] = "twait_get"]
  /\ UNCHANGED <<hostVars, local_count, start, off, i, local_src, local_dst, ldm,
                 ldm_avail, replyget, replyput, dma_put_sscal_dst, nwait, acq,
                 rel, grd, gwr, partVars>>

\* line 124 (test false) and line 141 (test false)
NoTail(w) ==
  /\ pc[w] = "for"
  /\ ~ForTest(w)
  /\ ~TailTest(w)
  /\ pc' = [pc EXCEPT ![w] = "free"]
  /\ UNCHANGED <<hostVars, local_count, start, off, i, local_src, local_dst, ldm,
                 ldm_avail, replyget, replyput, dma_get_sscal_src,
                 dma_put_sscal_dst, inflight, histVars, partVars>>

\* line 144 and i = 0 of line 146
TWaitGet(w) ==
  /\ pc[w] = "twait_get"
  /\ dma_wait(replyget[w], 1)
  /\ replyget' = [replyget EXCEPT ![w] = 0]
  /\ nwait' = [nwait EXCEPT ![w] = @ + 1]
  /\ i' = [i EXCEPT ![w] = 0]
  /\ pc' = [pc EXCEPT ![w] = "tsimd"]
  /\ UNCHANGED <<hostVars, local_count, start, off, local_src, local_dst, ldm,
                 ldm_avail, replyput, dma_get_sscal_src, dma_put_sscal_dst,
                 inflight, xfers, acq, rel, grd, gwr, partVars>>

\* the vector loop of the tail runs while any element is left
MutTSimdTest(w) == i[w] < local_count[w] - off[w]

\* the test of the loop at line 146
TSimdTest(w) == i[w] + SIMDSIZE - 1 < local_count[w] - off[w]

\* the scalar loop stops one element early
MutTScalarTest(w) == i[w] < local_count[w] - off[w] - 1

\* the test of the loop at line 151
TScalarTest(w) == i[w] < local_count[w] - off[w]

\* lines 146-150, one iteration
TSimd(w) ==
  /\ pc[w] = "tsimd"
  /\ TSimdTest(w)
  /\ ldm' = [ldm EXCEPT ![w] = SimdStep(w, i[w])]
  /\ i' = [i EXCEPT ![w] = @ + SIMDSIZE]
  /\ UNCHANGED <<hostVars, pc, local_count, start, off, local_src, local_dst,
                 ldm_avail, replyget, replyput, dma_get_sscal_src,
                 dma_put_sscal_dst, inflight, histVars, partVars>>

\* the scalar loop stores nothing
MutScalarStep(w, i0) == ldm[w]

\* local_dst[i] = local_src[i] * alpha;
ScalarStep(w, i0) ==
  [ldm[w] EXCEPT ![local_dst[w]] =
     [k \in 0 .. (BUFFSIZE - 1) |->
        IF k = i0 THEN Mul(para.alpha, LdmRd(w, local_src[w], k)) ELSE @[k]]]

\* the vector loop of the tail has been left
InScalar(w) == pc[w] = "tscalar" \/ (pc[w] = "tsimd" /\ ~TSimdTest(w))

\* lines 151-153, one iteration
TScalar(w) ==
  /\ InScalar(w)
  /\ TScalarTest(w)
  /\ ldm' = [ldm EXCEPT ![w] = ScalarStep(w, i[w])]
  /\ i' = [i EXCEPT ![w] = @ + 1]
  /\ pc' = [pc EXCEPT ![w] = "tscalar"]
  /\ UNCHANGED <<hostVars, local_count, start, off, local_src, local_dst,
                 ldm_avail, replyget, replyput, dma_get_sscal_src,
                 dma_put_sscal_dst, inflight, histVars, partVars>>

\* line 151 (test false) and lines 155-156
TPut(w) ==
  /\ InScalar(w)
  /\ ~TScalarTest(w)
  /\ LET d == [dma_put_sscal_dst[w] EXCEPT
                 !.size = TailBytes(w)]
     IN /\ dma_put_sscal_dst' = [dma_put_sscal_dst EXCEPT ![w] = d]
        /\ Issue(w, d, dst_ptr(w) + off[w], local_dst[w])
  /\ pc' = [pc EXCEPT ![w] = "twait_put"]
  /\ UNCHANGED <<hostVars, local_count, start, off, i, local_src, local_dst, ldm,
                 ldm_avail, replyget, replyput, dma_get_sscal_src, nwait, acq,
                 rel, grd, gwr, partVars>>

\* line 157
TWaitPut(w) ==
  /\ pc[w] = "twait_put"
  /\ dma_wait(replyput[w], 1)
  /\ replyput' = [replyput EXCEPT ![w] = 0]
  /\ nwait' = [nwait EXCEPT ![w] = @ + 1]
  /\ pc' = [pc EXCEPT ![w] = "free"]
  /\ UNCHANGED <<hostVars, local_count, start, off, i, local_src, local_dst, ldm,
                 ldm_avail, replyget, dma_get_sscal_src, dma_put_sscal_dst,
                 inflight, xfers, acq, rel, grd, gwr, partVars>>

\* the block is never given back
Mut_ldm_free(avail, ptr, size) == avail

\* ldm_free(ptr, size): the block goes back to the pool
ldm_free(avail, ptr, size) == IF ptr = NULL THEN avail ELSE avail + size

\* lines 161-162
Free(w) ==
  /\ pc[w] = "free"
  /\ ldm_avail' = [ldm_avail EXCEPT ![w] =
        ldm_free(ldm_free(@, local_src[w], BufBytes), local_dst[w], BufBytes)]
  /\ rel' = [rel EXCEPT ![w] = <<[ptr |-> local_src[w], size |-> BufBytes],
                                 [ptr |-> local_dst[w], size |-> BufBytes]>>]
  /\ ldm' = [ldm EXCEPT ![w] = FreshLdm]
  /\ pc' = [pc EXCEPT ![w] = "done"]
  /\ UNCHANGED <<hostVars, local_count, start, off, i, local_src, local_dst,
                 replyget, replyput, dma_get_sscal_src, dma_put_sscal_dst,
                 inflight, xfers, nwait, acq, grd, gwr, partVars>>

\* ------------------------------------------------------------ DMA engine
\* elements a transfer moves
Elems(t) == t.size \div SizeofFloat

\* global addresses a transfer touches
Span(t) == t.g .. (t.g + Elems(t) - 1)

\* an outstanding transfer of core w completes: the data is copied and the
\* reply word the descriptor names is incremented
DmaDone(w) ==
  \E t \in inflight[w] :
    /\ inflight' = [inflight EXCEPT ![w] = @ \ {t}]
    /\ IF t.op = "DMA_GET"
         THEN /\ ldm' = [ldm EXCEPT ![w][t.l] =
                    [k \in 0 .. (BUFFSIZE - 1) |->
                       IF k < Elems(t) THEN MemRd(t.g + k) ELSE @[k]]]
              /\ grd' = [grd EXCEPT ![w] = @ \cup Span(t)]
              /\ UNCHANGED <<mem, gwr>>
         ELSE /\ mem' = [a \in DOMAIN mem |->
                    IF a \in Span(t) THEN LdmRd(w, t.l, a - t.g) ELSE mem[a]]
              /\ gwr' = [gwr EXCEPT ![w] = @ \cup Span(t)]
              /\ UNCHANGED <<ldm, grd>>
    /\ IF t.reply = "replyget"
         THEN /\ replyget' = [replyget EXCEPT ![w] = @ + 1]
              /\ UNCHANGED replyput
         ELSE /\ replyput' = [replyput EXCEPT ![w] = @ + 1]
              /\ UNCHANGED replyget
    /\ UNCHANGED <<para, kernel, run, x0, prev, pc, local_count, start, off, i,
                   local_src, local_dst, ldm_avail, dma_get_sscal_src,
                   dma_put_sscal_dst, xfers, nwait, acq, rel, partVars>>

\* ------------------------------------------------------------------ host
AllDone == \A w \in Workers : pc[w] = "done"

\* the host spawns the kernel again: stack variables and LDM blocks are new,
\* the thread-local descriptors and the LDM pool are what the last run left
Respawn ==
  /\ pc' = [w \in Workers |-> "start"]
  /\ local_count' = [w \in Workers |-> 0]
  /\ start' = [w \in Workers |-> 0]
  /\ off' = [w \in Workers |-> 0]
  /\ i' = [w \in Workers |-> 0]
  /\ local_src' = [w \in Workers |-> NULL]
  /\ local_dst' = [w \in Workers |-> NULL]
  /\ ldm' = [w \in Workers |-> FreshLdm]
  /\ replyget' = [w \in Workers |-> 0]
  /\ replyput' = [w \in Workers |-> 0]
  /\ xfers' = [w \in Workers |-> <<>>]
  /\ nwait' = [w \in Workers |-> 0]
  /\ acq' = [w \in Workers |-> <<>>]
  /\ rel' = [w \in Workers |-> <<>>]
  /\ grd' = [w \in Workers |-> {}]
  /\ gwr' = [w \in Workers |-> {}]
  /\ UNCHANGED <<kernel, ldm_avail, dma_get_sscal_src, dma_put_sscal_dst,
                 inflight, partVars>>

\* the host invokes the kernel a second time with the same descriptor
Rerun ==
  /\ AllDone
  /\ run < MaxRuns
  /\ run' = run + 1
  /\ prev' = [kind |-> "rerun", count |-> para.count, x |-> x0, dst |-> DstNow]
  /\ x0' = SrcOf(para)
  /\ UNCHANGED <<para, mem>>
  /\ Respawn

\* the host restores the input and invokes the kernel on one more element
RunNext ==
  /\ AllDone
  /\ run < MaxRuns
  /\ para.count < MaxCount
  /\ run' = run + 1
  /\ prev' = [kind |-> "next", count |-> para.count, x |-> x0, dst |-> DstNow]
  /\ para' = [para EXCEPT !.count = @ + 1]
  /\ mem' = Mem0
  /\ x0' = [k \in 0 .. MaxCount |-> Mem0[k]]
  /\ Respawn

Next ==
  \/ \E w \in Workers : sw_slave_sscal_d(w)
  \/ \E w \in Workers : Enter(w)
  \/ \E w \in Workers : ForGet(w)
  \/ \E w \in Workers : WaitGet(w)
  \/ \E w \in Workers : Simd(w)
  \/ \E w \in Workers : Put(w)
  \/ \E w \in Workers : WaitPut(w)
  \/ \E w \in Workers : TailGet(w)
  \/ \E w \in Workers : NoTail(w)
  \/ \E w \in Workers : TWaitGet(w)
  \/ \E w \in Workers : TSimd(w)
  \/ \E w \in Workers : TScalar(w)
  \/ \E w \in Workers : TPut(w)
  \/ \E w \in Workers : TWaitPut(w)
  \/ \E w \in Workers : Free(w)
  \/ \E w \in Workers : DmaDone(w)
  \/ Rerun
  \/ RunNext

Spec == Init /\ [][Next]_vars

\* a step of slave core w
CoreStep(w) ==
  \/ sw_slave_sscal_d(w) \/ Enter(w) \/ ForGet(w) \/ WaitGet(w) \/ Simd(w)
  \/ Put(w) \/ WaitPut(w) \/ TailGet(w) \/ NoTail(w) \/ TWaitGet(w)
  \/ TSimd(w) \/ TScalar(w) \/ TPut(w) \/ TWaitPut(w) \/ Free(w)

\* counts of the first launch: nothing to do, a lone scalar tail, a tail of
\* one vector and one scalar element, whole chunks on every core, chunks and
\* a tail
FairCounts ==
  {0, 1, NumWorkers * (SIMDSIZE + 1), NumWorkers * BUFFSIZE,
   NumWorkers * (BUFFSIZE + SIMDSIZE + 1), MaxCount - 1}

\* the launches of Init with one scale factor and an out-of-place result:
\* control flow reads neither alpha nor the addresses
InitFair ==
  /\ Init
  /\ para.alpha = 2
  /\ para.dst = MaxCount + 1
  /\ para.count \in FairCounts

\* every slave core runs on its own hardware core, and the DMA engine
\* completes every transfer it was given
SpecFair ==
  /\ InitFair
  /\ [][Next]_vars
  /\ \A w \in Workers : WF_vars(CoreStep(w)) /\ WF_vars(DmaDone(w))

\* the same program when less LDM is left to the kernel than it asks for
InitExhaust == InitWith({0, BufBytes, LDMSize})

SpecExhaust == InitExhaust /\ [][Next]_vars


\* ------------------------------------------------- the partitioner alone
\* lines 102-103 evaluated for id = 0 .. P-1, one core at a time
InitPart ==
  /\ p_pop \in Populations
  /\ p_count \in 0 .. MaxPartCount
  /\ p_id = 0
  /\ p_parts = <<>>
  /\ para = [src |-> 0, dst |-> 0, alpha |-> 2, count |-> 0]
  /\ kernel = "f"
  /\ Launched({LDMSize})
  /\ WideIdle

PartStep ==
  /\ p_id < p_pop
  /\ p_parts' = Append(p_parts,
        [id |-> p_id,
         local_count |-> PartCount(p_id, p_count, p_pop),
         start |-> PartStart(p_id, p_count, p_pop)])
  /\ p_id' = p_id + 1
  /\ UNCHANGED <<p_pop, p_count, wideVars, hostVars, coreVars, histVars>>

NextPart == PartStep

SpecPart == InitPart /\ [][NextPart]_vars


\* ------------------------------------------- the int arithmetic, full width
\* The model checker's integers are as wide as the program's int, so the
\* mathematical value of an int expression is kept in two halves,
\* hi * Half + lo with lo in 0 .. Half-1, and the int the machine holds is
\* the two's complement wrap of it.
Half   == 65536
IntMax == 2147483647
RealBuffSize == 4 * 1024

\* carry from the low half into the high half
WNorm(h, l) == [hi |-> h + (l \div Half), lo |-> l % Half]

\* the value of an int
WOf(x) == WNorm(0, x)

WAdd(a, b) == WNorm(a.hi + b.hi, a.lo + b.lo)
WSub(a, b) == WNorm(a.hi - b.hi, a.lo - b.lo)

\* product with a small factor (0 <= k <= SPNUM)
WMul(a, k) == WNorm(a.hi * k, a.lo * k)

\* the value is representable in a signed 32-bit int
Fits(a) == a.hi \in (0 - (Half \div 2)) .. ((Half \div 2) - 1)

\* the int a 32-bit register holds for the value
Wrap(a) == (((a.hi + (Half \div 2)) % Half) - (Half \div 2)) * Half + a.lo

\* an evaluated int expression: its mathematical value and the int obtained
Eval(a) == [math |-> a, got |-> Wrap(a)]

\* count/SPNUM + (id<(count%SPNUM))
WideCount(id, count) ==
  WAdd(WOf(CDiv(count, SPNUM)), WOf(BoolInt(id < CMod(count, SPNUM))))

\* the product is scaled to a byte offset
MutWideProduct(id, count) == WMul(WMul(WOf(CDiv(count, SPNUM)), id), SizeofFloat)

\* id*(count/SPNUM)
WideProduct(id, count) == WMul(WOf(CDiv(count, SPNUM)), id)

\* id*(count/SPNUM) + (id<(count%SPNUM) ? id : (count%SPNUM))
WideStart(id, count) ==
  WAdd(WideProduct(id, count),
       WOf(IF id < CMod(count, SPNUM) THEN id ELSE CMod(count, SPNUM)))

\* counts around the borders of the partitioner and of the chunk loop, up
\* to the largest int
WideCounts ==
  {0, 1, SPNUM - 1, SPNUM, SPNUM + 1,
   SPNUM * RealBuffSize - 1, SPNUM * RealBuffSize, SPNUM * RealBuffSize + 1,
   IntMax - SPNUM, IntMax}

InitWide ==
  /\ n_count \in WideCounts
  /\ n_id \in 0 .. (SPNUM - 1)
  /\ n_pc = "part"
  /\ n_local_count = 0
  /\ n_start = 0
  /\ n_off = 0
  /\ n_eval = <<>>
  /\ para = [src |-> 0, dst |-> 0, alpha |-> 2, count |-> 0]
  /\ kernel = "f"
  /\ Launched({LDMSize})
  /\ PartIdle

\* lines 102-103 and the initialisation of the for loop
WidePartition ==
  /\ n_pc = "part"
  /\ n_local_count' = Wrap(WideCount(n_id, n_count))
  /\ n_start' = Wrap(WideStart(n_id, n_count))
  /\ n_off' = 0
  /\ n_eval' = <<Eval(WideCount(n_id, n_count)), Eval(WideProduct(n_id, n_count)),
                 Eval(WideStart(n_id, n_count))>>
  /\ n_pc' = "for"
  /\ UNCHANGED <<n_count, n_id>>
  /\ UNCHANGED <<p_pop, p_count, p_id, p_parts, hostVars, coreVars, histVars>>

\* off+BUFFSIZE and off+BUFFSIZE-1 of line 124
WideNextOff == WAdd(WOf(n_off), WOf(RealBuffSize))
WideLast == WSub(WideNextOff, WOf(1))

\* line 124, test true: one full chunk, then off += BUFFSIZE
WideChunk ==
  /\ n_pc = "for"
  /\ Wrap(WideLast) < n_local_count
  /\ n_off' = Wrap(WideNextOff)
  /\ n_eval' = <<Eval(WideNextOff), Eval(WideLast), Eval(WideNextOff)>>
  /\ UNCHANGED <<n_count, n_id, n_pc, n_local_count, n_start>>
  /\ UNCHANGED <<p_pop, p_count, p_id, p_parts, hostVars, coreVars, histVars>>

\* local_count-off of lines 142, 146, 151 and 155
WideRest == WSub(WOf(n_local_count), WOf(n_off))

\* line 124, test false, and line 141, test true: the tail
WideTail ==
  /\ n_pc = "for"
  /\ ~(Wrap(WideLast) < n_local_count)
  /\ n_off < n_local_count
  /\ n_eval' = <<Eval(WideNextOff), Eval(WideLast), Eval(WideRest)>>
  /\ n_pc' = "done"
  /\ UNCHANGED <<n_count, n_id, n_local_count, n_start, n_off>>
  /\ UNCHANGED <<p_pop, p_count, p_id, p_parts, hostVars, coreVars, histVars>>

\* line 124, test false, and line 141, test false
WideNoTail ==
  /\ n_pc = "for"
  /\ ~(Wrap(WideLast) < n_local_count)
  /\ ~(n_off < n_local_count)
  /\ n_eval' = <<Eval(WideNextOff), Eval(WideLast)>>
  /\ n_pc' = "done"
  /\ UNCHANGED <<n_count, n_id, n_local_count, n_start, n_off>>
  /\ UNCHANGED <<p_pop, p_count, p_id, p_parts, hostVars, coreVars, histVars>>

NextWide ==
  \/ WidePartition
  \/ WideChunk
  \/ WideTail
  \/ WideNoTail

SpecWide == InitWide /\ [][NextWide]_vars


\* ================================================================ claims
Min(a, b) == IF a < b THEN a ELSE b

\* indices of the vector a partition entry covers
PartRange(e) == e.start .. (e.start + e.local_count - 1)

PartitionDone == p_id = p_pop /\ Len(p_parts) = p_pop

\* C1: once every id in 0..P-1 has computed its range, each index of
\* [0, count) lies in exactly one range and no range leaves [0, count).
C1_PartitionCoverage ==
  PartitionDone =>
    /\ \A k \in 0 .. (p_count - 1) :
         Cardinality({j \in 1 .. p_pop : k \in PartRange(p_parts[j])}) = 1
    /\ \A j \in 1 .. p_pop :
         /\ p_parts[j].local_count >= 0
         /\ PartRange(p_parts[j]) \subseteq 0 .. (p_count - 1)

\* all 64 cores have computed a range, some with a remainder element
C1_Witness ==
  /\ PartitionDone
  /\ p_pop = SPNUM
  /\ p_count > SPNUM
  /\ p_count % SPNUM # 0

\* C2: every core id computes local_count = N/P + [id < N mod P] and
\* start = id*(N/P) + min(id, N mod P); N = 10, P = 4 gives the counts
\* 3,3,2,2 at the offsets 0,3,6,8.
C2_PartitionerResult ==
  /\ \A j \in 1 .. Len(p_parts) :
       LET e == p_parts[j]
           q == p_count \div p_pop
           r == p_count % p_pop
       IN /\ e.id = j - 1
          /\ e.local_count = q + (IF e.id < r THEN 1 ELSE 0)
          /\ e.start = e.id * q + Min(e.id, r)
  /\ (p_count = 10 /\ p_pop = 4 /\ PartitionDone) =>
       /\ [j \in 1 .. 4 |-> p_parts[j].local_count] = <<3, 3, 2, 2>>
       /\ [j \in 1 .. 4 |-> p_parts[j].start] = <<0, 3, 6, 8>>

\* the scenario of the specification: N = 10 on P = 4
C2_Witness == p_count = 10 /\ p_pop = 4 /\ PartitionDone

\* C3: when every core has returned from sw_slave_sscal_f, each destination
\* element is alpha times the source element the vector held at launch.
C3_ScaleCorrect ==
  (kernel = "f" /\ AllDone) =>
    \A k \in 0 .. (para.count - 1) : mem[para.dst + k] = Mul(para.alpha, x0[k])

\* a run in which a core went through a full chunk and a tail
C3_Witness ==
  /\ kernel = "f"
  /\ AllDone
  /\ \E w \in Workers :
       local_count[w] > BUFFSIZE /\ local_count[w] % BUFFSIZE >= SIMDSIZE + 1

\* the core's own index range, as global source / destination addresses
OwnSrc(w) == (para.src + start[w]) .. (para.src + start[w] + local_count[w] - 1)
OwnDst(w) == (para.dst + start[w]) .. (para.dst + start[w] + local_count[w] - 1)

\* C4: every in-transfer reads source elements of the core's own range
\* only, every out-transfer writes destination elements of that range only,
\* and no destination element is written by two cores.
C4_DisjointSharing ==
  /\ \A w \in Workers :
       /\ \A j \in 1 .. Len(xfers[w]) :
            IF xfers[w][j].op = "DMA_GET"
              THEN Span(xfers[w][j]) \subseteq OwnSrc(w)
              ELSE Span(xfers[w][j]) \subseteq OwnDst(w)
       /\ grd[w] \subseteq OwnSrc(w)
       /\ gwr[w] \subseteq OwnDst(w)
  /\ \A w, v \in Workers : w # v => gwr[w] \cap gwr[v] = {}

\* two cores have both written while at least one is still running
C4_Witness ==
  \E w, v \in Workers :
    /\ w # v
    /\ gwr[w] # {}
    /\ gwr[v] # {}
    /\ pc[w] \notin {"start", "done"}

\* the core has computed its partition in this invocation
Entered(w) == kernel = "f" /\ pc[w] # "start"

\* C5: a core whose local_count is 0 issues no transfer, returns from no
\* dma_wait, has no transfer outstanding, and none of its transfers reads
\* or writes global memory; with count = 0 global memory stays as launched.
C5_ZeroLength ==
  /\ \A w \in Workers :
       (Entered(w) /\ local_count[w] = 0) =>
         /\ xfers[w] = <<>>
         /\ nwait[w] = 0
         /\ inflight[w] = {}
         /\ grd[w] = {}
         /\ gwr[w] = {}
         /\ pc[w] \in {"for", "free", "done"}
  /\ (kernel = "f" /\ para.count = 0) => mem = Mem0

\* a core with an empty partition has returned while another one had work
C5_Witness ==
  \E w, v \in Workers :
    /\ Entered(w) /\ local_count[w] = 0 /\ pc[w] = "done"
    /\ Entered(v) /\ local_count[v] > 0


\* C6: when a run on N elements, N a multiple of the chunk size, is followed
\* by a run on N+1 elements of the same input, the first N destination
\* elements are the same after both runs.
C6_ChunkBoundary ==
  (AllDone /\ prev.kind = "next" /\ prev.count % BUFFSIZE = 0 /\ prev.x = x0) =>
    \A k \in 0 .. (prev.count - 1) : mem[para.dst + k] = prev.dst[k]

\* the first run was full chunks only on every core, the second has a tail
C6_Witness ==
  /\ kernel = "f"
  /\ AllDone
  /\ prev.kind = "next"
  /\ prev.count = NumWorkers * BUFFSIZE
  /\ prev.x = x0
  /\ \E w \in Workers : local_count[w] = BUFFSIZE + 1 /\ Len(xfers[w]) = 4

\* C7 as stated: after a second invocation with the same descriptor the
\* destination holds what it held after the first, whatever the pointers.
C7_Original ==
  (AllDone /\ prev.kind = "rerun") => DstNow = prev.dst

\* source and destination ranges of the descriptor share an element
Overlap(p) ==
  (p.src .. (p.src + p.count - 1)) \cap (p.dst .. (p.dst + p.count - 1)) # {}

\* C7 amended: after a second invocation with the same descriptor, whose
\* destination range does not overlap its source range, the destination
\* holds what it held after the first invocation.
C7_Idempotent ==
  (AllDone /\ prev.kind = "rerun" /\ ~Overlap(para)) => DstNow = prev.dst

\* a re-run of sw_slave_sscal_f with separate vectors, chunks and a tail
C7_Witness ==
  /\ kernel = "f"
  /\ AllDone
  /\ prev.kind = "rerun"
  /\ ~Overlap(para)
  /\ \E w \in Workers : local_count[w] > BUFFSIZE /\ local_count[w] % BUFFSIZE # 0

\* C8: a core that has left sw_slave_sscal_f has released each of the two
\* buffers it acquired exactly once, with the size it was acquired with, its
\* pool is back to what it was, and no transfer is outstanding; nothing is
\* released before the core is done.
C8_BufferRelease ==
  \A w \in Workers :
    /\ (Entered(w) /\ pc[w] = "done") =>
         /\ Len(acq[w]) = 2 /\ Len(rel[w]) = 2
         /\ acq[w][1].ptr # acq[w][2].ptr
         /\ \A j \in 1 .. 2 :
              /\ acq[w][j].ptr # NULL
              /\ acq[w][j].size = BUFFSIZE * SizeofFloat
              /\ rel[w][j] = acq[w][j]
         /\ ldm_avail[w] = LDMSize
         /\ inflight[w] = {}
    /\ (Entered(w) /\ pc[w] # "done") =>
         (rel[w] = <<>> /\ ldm_avail[w] = LDMSize - 2 * BUFFSIZE * SizeofFloat)

\* cores have left by the zero-length path and by the chunks-and-tail path
C8_Witness ==
  /\ kernel = "f"
  /\ AllDone
  /\ \E w \in Workers : local_count[w] > BUFFSIZE /\ local_count[w] % BUFFSIZE # 0
  /\ run = 2

\* an acquisition of the core failed in this invocation
AcquireFailed(w) == \E j \in 1 .. Len(acq[w]) : acq[w][j].ptr = NULL

\* C9: a core one of whose buffer acquisitions failed issues no transfer
\* and writes no destination element.
C9_Exhaustion ==
  \A w \in Workers :
    (Entered(w) /\ AcquireFailed(w)) => (xfers[w] = <<>> /\ gwr[w] = {})

\* C10: when every core has returned from sw_slave_sscal_d, each destination
\* element is alpha times the source element the vector held at launch.
C10_DoubleScales ==
  (kernel = "d" /\ AllDone) =>
    \A k \in 0 .. (para.count - 1) : mem[para.dst + k] = Mul(para.alpha, x0[k])


\* a transfer of the given direction is issued and its completion has not
\* been observed by a dma_wait of the core
GetPending(w) == (\E t \in inflight[w] : t.op = "DMA_GET") \/ replyget[w] # 0
PutPending(w) == (\E t \in inflight[w] : t.op = "DMA_PUT") \/ replyput[w] # 0

\* the step is an iteration of a compute loop of core w: it reads local_src
\* and writes local_dst at index i and advances i
ComputeStep(w) == i'[w] > i[w]

\* C11: no iteration of a compute loop (which reads the input buffer and
\* writes the output buffer) is taken while an in-transfer or an
\* out-transfer of the core is issued and not yet observed complete.
C11_WaitBeforeUse ==
  [][\A w \in Workers :
       ComputeStep(w) => (~GetPending(w) /\ ~PutPending(w))]_vars

\* a core computes its second chunk, after a put and a get have completed
C11_Witness ==
  \E w \in Workers : pc[w] = "simd" /\ i[w] > 0 /\ off[w] > 0 /\ nwait[w] = 3

\* transfers of the core issued and not yet observed complete
Outstanding(w) == Cardinality(inflight[w]) + replyget[w] + replyput[w]

\* C12: a core has at most one transfer outstanding; transfers are issued
\* in the order get, put, get, put, ..., each with nothing outstanding, the
\* get of the next chunk after the put of the current one was waited for;
\* the core returns from exactly two waits per chunk.
C12_NoOverlap ==
  \A w \in Workers :
    /\ Outstanding(w) <= 1
    /\ Len(xfers[w]) - nwait[w] \in {0, 1}
    /\ (Len(xfers[w]) - nwait[w] = 1) <=>
          (pc[w] \in {"wait_get", "wait_put", "twait_get", "twait_put"})
    /\ \A j \in 1 .. Len(xfers[w]) :
         /\ xfers[w][j].pending = 0
         /\ xfers[w][j].op = (IF j % 2 = 1 THEN "DMA_GET" ELSE "DMA_PUT")
         /\ (j % 2 = 0) => xfers[w][j].off = xfers[w][j - 1].off
         /\ (j % 2 = 1 /\ j > 1) => xfers[w][j].off > xfers[w][j - 1].off
    /\ (pc[w] \in {"for", "free", "done"}) =>
          (nwait[w] = Len(xfers[w]) /\ nwait[w] % 2 = 0)

\* a core is blocked on the get of its second chunk
C12_Witness ==
  \E w \in Workers :
    /\ pc[w] \in {"wait_get", "twait_get"}
    /\ Len(xfers[w]) = 3
    /\ Outstanding(w) = 1


\* C13: while an out-transfer of s elements for the chunk at off is issued
\* and not completed, element j < s of the buffer it reads holds alpha times
\* source element start+off+j, as the source was at launch.
C13_ComputeBeforePut ==
  \A w \in Workers :
    \A t \in inflight[w] :
      t.op = "DMA_PUT" =>
        \A j \in 0 .. (Elems(t) - 1) :
          LdmRd(w, t.l, j) = Mul(para.alpha, x0[t.g - para.dst + j])

\* the put of a tail with a vector part and a scalar part, after a full chunk
C13_Witness ==
  \E w \in Workers :
    \E t \in inflight[w] :
      /\ t.op = "DMA_PUT"
      /\ off[w] > 0
      /\ Elems(t) > SIMDSIZE
      /\ Elems(t) % SIMDSIZE # 0

\* values of the reply words and their state while a transfer is in flight
SignalsOK ==
  \A w \in Workers :
    /\ replyget[w] \in {0, 1}
    /\ replyput[w] \in {0, 1}
    /\ \A t \in inflight[w] :
         /\ t.op = "DMA_GET" => (t.reply = "replyget" /\ replyget[w] = 0)
         /\ t.op = "DMA_PUT" => (t.reply = "replyput" /\ replyput[w] = 0)

\* what a completion and a return from dma_wait do to the reply words
SignalSteps ==
  \A w \in Workers :
    /\ replyget'[w] > replyget[w] =>
         /\ replyput'[w] = replyput[w]
         /\ \E t \in inflight[w] \ inflight'[w] : t.op = "DMA_GET"
    /\ replyput'[w] > replyput[w] =>
         /\ replyget'[w] = replyget[w]
         /\ \E t \in inflight[w] \ inflight'[w] : t.op = "DMA_PUT"
    /\ (nwait'[w] = nwait[w] + 1) =>
         /\ inflight[w] = {}
         /\ IF xfers[w][Len(xfers[w])].op = "DMA_GET"
              THEN replyget[w] = 1 /\ replyget'[w] = 0 /\ replyput'[w] = replyput[w]
              ELSE replyput[w] = 1 /\ replyput'[w] = 0 /\ replyget'[w] = replyget[w]

\* C14: replyget and replyput are 0 or 1; the reply word of a transfer is 0
\* from its issue to its completion; the completion of a get raises only
\* replyget, that of a put only replyput; a dma_wait returns when the last
\* transfer issued has completed and its reply word is then set to 0.
C14_Signals == []SignalsOK /\ [][SignalSteps]_vars

\* the put of the second chunk has completed and is not yet waited for
C14_Witness ==
  \E w \in Workers : replyput[w] = 1 /\ Len(xfers[w]) = 4 /\ nwait[w] = 3


\* chunks a partition of n elements takes
Chunks(n) == (n + BUFFSIZE - 1) \div BUFFSIZE

TailPcs == {"twait_get", "tsimd", "tscalar", "twait_put"}
FullPcs == {"wait_get", "simd", "wait_put"}

\* C15: the j-th chunk a core moves, j = 0, 1, ..., is at offset j*BUFFSIZE;
\* the first local_count div BUFFSIZE chunks are full and go through the for
\* loop, one more chunk of local_count mod BUFFSIZE elements goes through
\* the tail exactly when that remainder is not 0; a core that has returned
\* has issued ceil(local_count / BUFFSIZE) gets and as many puts.
C15_ChunkSchedule ==
  \A w \in Workers :
    Entered(w) =>
      LET full == local_count[w] \div BUFFSIZE
          rest == local_count[w] % BUFFSIZE
      IN /\ \A j \in 1 .. Len(xfers[w]) :
              LET c == (j - 1) \div 2
                  e == xfers[w][j]
              IN /\ e.off = c * BUFFSIZE
                 /\ c < Chunks(local_count[w])
                 /\ Elems(e) = (IF c < full THEN BUFFSIZE ELSE rest)
                 /\ e.op = "DMA_PUT" =>
                      (e.from = "simd" <=> c < full)
         /\ pc[w] \in FullPcs => off[w] < full * BUFFSIZE
         /\ pc[w] \in TailPcs => (rest # 0 /\ off[w] = full * BUFFSIZE)
         /\ pc[w] \in {"free", "done"} =>
              Len(xfers[w]) = 2 * Chunks(local_count[w])

\* a core has returned after two full chunks and a tail
C15_Witness ==
  \E w \in Workers :
    /\ Entered(w) /\ pc[w] = "done"
    /\ local_count[w] = 2 * BUFFSIZE + 1
    /\ Len(xfers[w]) = 6

\* the core's output buffer changes at index k in this step
Stored(w, k) == ldm'[w][local_dst[w]][k] # ldm[w][local_dst[w]][k]

\* elements of the chunk the core is working on
ChunkLen(w) == IF pc[w] = "simd" THEN BUFFSIZE ELSE local_count[w] - off[w]

\* C16: an iteration of a vector loop at index i stores exactly the indices
\* i .. i+SIMDSIZE-1, with i a multiple of SIMDSIZE and i+SIMDSIZE-1 inside
\* the chunk; an iteration of the scalar loop stores exactly index i, at or
\* after the last multiple of SIMDSIZE and inside the chunk; the loops start
\* at 0 and a put is issued when i has reached the end of the chunk.
C16_VectorScalarSplit ==
  /\ [][\A w \in Workers :
          ComputeStep(w) =>
            LET r == ChunkLen(w)
                vec == pc[w] \in {"simd", "tsimd"} /\ pc'[w] # "tscalar"
            IN /\ pc[w] = "simd" => r % SIMDSIZE = 0
               /\ pc[w] # "simd" => (0 < r /\ r < BUFFSIZE)
               /\ vec =>
                    /\ i[w] % SIMDSIZE = 0
                    /\ i[w] + SIMDSIZE - 1 < r
                    /\ i'[w] = i[w] + SIMDSIZE
                    /\ \A k \in 0 .. (BUFFSIZE - 1) :
                         Stored(w, k) <=> (i[w] <= k /\ k < i[w] + SIMDSIZE)
               /\ ~vec =>
                    /\ i[w] >= (r \div SIMDSIZE) * SIMDSIZE
                    /\ i[w] < r
                    /\ i'[w] = i[w] + 1
                    /\ \A k \in 0 .. (BUFFSIZE - 1) : Stored(w, k) <=> k = i[w]]_vars
  /\ [](\A w \in Workers :
          /\ pc[w] \in {"wait_put", "twait_put"} =>
               i[w] = Elems(xfers[w][Len(xfers[w])])
          /\ pc[w] = "tscalar" =>
               i[w] > ((local_count[w] - off[w]) \div SIMDSIZE) * SIMDSIZE)

\* the tail's scalar loop is at work after its vector loop has stored a vector
C16_Witness ==
  \E w \in Workers :
    /\ pc[w] = "tscalar"
    /\ local_count[w] - off[w] = SIMDSIZE + 2
    /\ i[w] = SIMDSIZE + 1


\* a core with a transfer in flight is at a dma_wait and cannot take a step
BlockedWhileInFlight ==
  \A w \in Workers :
    inflight[w] # {} =>
      /\ pc[w] \in {"wait_get", "wait_put", "twait_get", "twait_put"}
      /\ ~ENABLED CoreStep(w)

\* C17: when every core keeps running and every issued transfer completes,
\* every spawned core returns (with its buffers released, see C8); as long
\* as a transfer of a core has not completed the core stays at its dma_wait
\* and takes no step, so it issues nothing.
C17_Termination ==
  /\ \A w \in Workers : (pc[w] = "start") ~> (pc[w] = "done")
  /\ []BlockedWhileInFlight

\* a core with chunks and a tail has returned, its buffers released
C17_Witness ==
  \E w \in Workers :
    /\ Entered(w) /\ pc[w] = "done"
    /\ Len(rel[w]) = 2
    /\ Len(xfers[w]) >= 4


\* the staging buffer a transfer of core w uses: gets fill local_src, puts
\* drain local_dst
StagingOf(w, t) == IF t.op = "DMA_GET" THEN local_src[w] ELSE local_dst[w]

\* C18: every transfer a core issues moves a whole number of elements, at
\* least 1 and at most BUFFSIZE, and its LDM address is the base of the
\* core's staging buffer for that direction, a block of BUFFSIZE elements;
\* so no transfer passes the end of a staging buffer and none is empty.
C18_TransferSize ==
  \A w \in Workers : \A k \in 1 .. Len(xfers[w]) :
    LET t == xfers[w][k]
    IN /\ t.op \in {"DMA_GET", "DMA_PUT"}
       /\ t.size % SizeofFloat = 0
       /\ t.size \div SizeofFloat \in 1 .. BUFFSIZE
       /\ t.l = StagingOf(w, t)
       /\ t.l # NULL
       /\ \E b \in 1 .. Len(acq[w]) :
            acq[w][b].ptr = t.l /\ t.size <= acq[w][b].size

\* a core has moved a full chunk and a tail of one element, both ways
C18_Witness ==
  \E w \in Workers :
    /\ pc[w] = "done"
    /\ \E j, k \in 1 .. Len(xfers[w]) :
         /\ xfers[w][j].op = "DMA_GET" /\ xfers[w][j].size = BufBytes
         /\ xfers[w][k].op = "DMA_PUT" /\ xfers[w][k].size = SizeofFloat


\* the bytes of the chunk of core w that starts at offset o
ChunkBytes(w, o) == Min(BUFFSIZE, local_count[w] - o) * SizeofFloat

\* the descriptors of core w keep what the core left in them
DescriptorsPersist ==
  \A w \in Workers :
    pc'[w] = "start" =>
      /\ dma_get_sscal_src'[w] = dma_get_sscal_src[w]
      /\ dma_put_sscal_dst'[w] = dma_put_sscal_dst[w]

\* C19: the descriptors survive from one invocation to the next, and at
\* every issue the size configured in the descriptor is the size of the
\* chunk being moved: BUFFSIZE elements for a full chunk, local_count - off
\* elements for the tail, also in an invocation that follows one which left
\* a smaller size in the descriptor.
C19_SizeAtIssue ==
  /\ [][DescriptorsPersist]_vars
  /\ [](\A w \in Workers : \A k \in 1 .. Len(xfers[w]) :
          xfers[w][k].size = ChunkBytes(w, xfers[w][k].off))

\* the previous invocation ended in the tail path on core w with a smaller
\* size, and the first get and put of this one moved a full chunk
C19_Witness ==
  \E w \in Workers :
    /\ run > 1
    /\ PartCount(w, prev.count, NumWorkers) % BUFFSIZE # 0
    /\ Len(xfers[w]) >= 2
    /\ xfers[w][1].from = "for" /\ xfers[w][1].size = BufBytes
    /\ xfers[w][2].op = "DMA_PUT" /\ xfers[w][2].size = BufBytes


\* C20: for the counts up to the largest int and every id in [0, SPNUM),
\* each int expression of the partitioner and of the chunk loop has a
\* mathematical value inside the signed 32-bit range, so the int obtained
\* is that value.
C20_NoOverflow ==
  \A k \in 1 .. Len(n_eval) :
    /\ Fits(n_eval[k].math)
    /\ WOf(n_eval[k].got) = n_eval[k].math

\* the last core of the largest count has walked all its full chunks and
\* evaluated the length of its tail
C20_Witness ==
  /\ n_count = IntMax
  /\ n_id = SPNUM - 1
  /\ n_pc = "done"
  /\ n_off > 0
  /\ Len(n_eval) = 3
  /\ n_start > IntMax \div 2

====
